---------------------------- MODULE Spec2Model ----------------------------
(***************************************************************************)
(* Model of src/components/MeterCalculator.tsx: the reading store of the   *)
(* MeterCalculator component (addTenant, removeTenant, updateReading, the  *)
(* two bill-parameter inputs), the allocation computed on every render,    *)
(* and the three export handlers.                                          *)
(*                                                                         *)
(* Numbers.  A JavaScript number is modelled as an exact extended          *)
(* rational [n, d] in lowest terms: d > 0 is the finite value n/d, and     *)
(* d = 0 is one of the three non-finite values (n = 1: Infinity, n = -1:   *)
(* -Infinity, n = 0: NaN).  Arithmetic is exact, so the representation     *)
(* error of IEEE doubles (about 1e-13 at the magnitudes of meter readings) *)
(* is not modelled.  The numbers kept in the component's state are finite  *)
(* (every input goes through `parseFloat(..) || 0`); they are held as      *)
(* integers counting thousandths.                                          *)
(***************************************************************************)
EXTENDS Integers, Sequences, FiniteSets, TLC

VARIABLES
    readings,        \* useState<TenantReading[]>: sequence of [id, name, previous, current]
    totalUnits,      \* useState<number>, in thousandths of a kWh
    totalAmount,     \* useState<number>, in thousandths of a currency unit
    now,             \* the value Date.now() returns at present
    toast,           \* title of the last notification shown ("" = none yet)
    generatorFailed, \* the document generator called by the last handler failed
    thrown           \* the last handler ended by an exception it did not catch

vars == <<readings, totalUnits, totalAmount, now, toast, generatorFailed, thrown>>

---------------------------------------------------------------------------
(* Bounds of the model.                                                    *)

\* Add Tenant is not clicked on a store of this length (Spec)
MaxTenants == 3
\* Add Tenant is not clicked on a store of this length (SpecGrow)
MaxGrow == 27
\* Date.now() when the page is opened, and the value it is not advanced beyond
StartNow == 3
MaxNow == 4
\* the largest store the calculations are made for (SpecCalc)
MaxCalcTenants == 3

---------------------------------------------------------------------------
(* The initial state of the component, in thousandths.                     *)

InitPreviousA == 97870
InitCurrentA == 126950
InitPreviousB == 155300
InitCurrentB == 175400
InitTotalUnits == 52800
InitTotalAmount == 12000000

\* the state's numbers count thousandths
Thousandth == 10 * 10 * 10

---------------------------------------------------------------------------
(* JavaScript numbers as exact extended rationals.                         *)

Abs(x) == IF x < 0 THEN -x ELSE x

Sign(x) == IF x < 0 THEN -1 ELSE IF x > 0 THEN 1 ELSE 0

RECURSIVE GCD(_, _)
GCD(a, b) == IF b = 0 THEN a ELSE GCD(b, a % b)

\* d = 0: n = 1 is Infinity, n = -1 is -Infinity, n = 0 is NaN
NaN == [n |-> 0, d |-> 0]

\* the finite number n/d (d > 0), in lowest terms
Num(n, d) == LET g == GCD(Abs(n), d) IN [n |-> n \div g, d |-> d \div g]

IsFinite(x) == x.d > 0
IsNaN(x) == x.d = 0 /\ x.n = 0

\* a number of the component's state (thousandths) as a JavaScript number
Milli(k) == Num(k, Thousandth)
\* a number of hundredths
Centi(k) == Num(k, 100)

\* x + y
JsAdd(a, b) ==
    IF IsFinite(a) /\ IsFinite(b) THEN Num(a.n * b.d + b.n * a.d, a.d * b.d)
    ELSE IF IsNaN(a) \/ IsNaN(b) THEN NaN
    ELSE IF IsFinite(a) THEN b
    ELSE IF IsFinite(b) THEN a
    ELSE IF a.n = b.n THEN a ELSE NaN

JsNeg(a) == [n |-> -a.n, d |-> a.d]

\* x - y
JsSub(a, b) == JsAdd(a, JsNeg(b))

\* x * y: Infinity * 0 is NaN
JsMul(a, b) ==
    IF IsFinite(a) /\ IsFinite(b)
    THEN LET g1 == GCD(Abs(a.n), b.d)
             g2 == GCD(Abs(b.n), a.d)
         IN Num((a.n \div g1) * (b.n \div g2), (a.d \div g2) * (b.d \div g1))
    ELSE IF IsNaN(a) \/ IsNaN(b) THEN NaN
    ELSE IF Sign(a.n) * Sign(b.n) = 0 THEN NaN
    ELSE [n |-> Sign(a.n) * Sign(b.n), d |-> 0]

\* x / y: a / 0 is Infinity or -Infinity by the sign of a, 0 / 0 is NaN.
\* (The zero divisors of the component are +0: `parseFloat(..) || 0` and an
\* array's length never give -0.)
JsDiv(a, b) ==
    IF IsNaN(a) \/ IsNaN(b) THEN NaN
    ELSE IF IsFinite(a) /\ IsFinite(b)
    THEN IF b.n = 0 THEN [n |-> Sign(a.n), d |-> 0]
         ELSE JsMul(a, [n |-> Sign(b.n) * b.d, d |-> Abs(b.n)])
    ELSE IF IsFinite(a) THEN Num(0, 1)
    ELSE IF IsFinite(b) THEN [n |-> a.n * (IF b.n < 0 THEN -1 ELSE 1), d |-> 0]
    ELSE NaN

\* the finite a cut to whole hundredths of its magnitude, plus k hundredths
Hundredths(a, k) == Centi(Sign(a.n) * (100 * (Abs(a.n) \div a.d) + k))

\* FixedValue cutting the digits after the second instead of rounding
FixedTruncated(a) ==
    IF IsFinite(a) THEN Hundredths(a, (100 * (Abs(a.n) % a.d)) \div a.d) ELSE a

\* x.toFixed(2), as the number it prints: the multiple of 0.01 nearest to x,
\* the one of larger magnitude on a tie (toFixed rounds the magnitude and
\* prefixes the sign); "Infinity", "-Infinity" and "NaN" for the others.
FixedValue(a) ==
    IF IsFinite(a)
    THEN Hundredths(a, (200 * (Abs(a.n) % a.d) + a.d) \div (2 * a.d))
    ELSE a

\* parseFloat(x.toFixed(2)): parseFloat reads back what toFixed printed,
\* "Infinity", "-Infinity" and "NaN" included.
ToFixed2(x) == FixedValue(x)

---------------------------------------------------------------------------
(* What the user types into a number field: text that parseFloat reads as  *)
(* the finite number v thousandths (ok), or text it cannot read.           *)

Typed(k) == [ok |-> TRUE, v |-> k]
Unparsable == [ok |-> FALSE, v |-> 0]

\* parseFloat(e.target.value)
ParseFloat(entry) == IF entry.ok THEN Milli(entry.v) ELSE NaN

\* `x || 0` for a number x: NaN and 0 are falsy.  The result is finite and
\* is returned in thousandths, as the state holds it.
OrZero(x) == IF IsNaN(x) \/ x.n = 0 THEN 0 ELSE (x.n * Thousandth) \div x.d

\* parseFloat(e.target.value) || 0
NumberInput(entry) == OrZero(ParseFloat(entry))

\* Number.prototype.toString() of a non-negative integer
Digits == <<"0", "1", "2", "3", "4", "5", "6", "7", "8", "9">>

RECURSIVE NumberToString(_)
NumberToString(k) ==
    IF k < 10 THEN Digits[k + 1] ELSE NumberToString(k \div 10) \o Digits[(k % 10) + 1]

\* String.fromCharCode(c) for the code units 65 .. 95
CharTable ==
    <<"A", "B", "C", "D", "E", "F", "G", "H", "I", "J", "K", "L", "M",
      "N", "O", "P", "Q", "R", "S", "T", "U", "V", "W", "X", "Y", "Z",
      "[", "\\", "]", "^", "_">>

FromCharCode(c) == CharTable[c - 64]

---------------------------------------------------------------------------
(* The calculations of a render (lines 65-89), as functions of the state   *)
(* the render reads: rs = readings, tu = totalUnits, ta = totalAmount.     *)

\* const unitPrice = totalAmount / totalUnits
unitPrice(tu, ta) == JsDiv(Milli(ta), Milli(tu))

\* const usage = readings.map(r => ({ ...r, used: .. }))
usage(rs) ==
    [i \in 1..Len(rs) |->
        [name |-> rs[i].name,
         used |-> ToFixed2(JsSub(Milli(rs[i].current), Milli(rs[i].previous)))]]

\* u.reduce((acc, r) => acc + r.used, 0) over the first k entries of u
RECURSIVE Reduce(_, _)
Reduce(u, k) == IF k = 0 THEN Num(0, 1) ELSE JsAdd(Reduce(u, k - 1), u[k].used)

\* const totalUsed = usage.reduce(..), u the usage array
totalUsed(u) == Reduce(u, Len(u))

\* const unaccounted = parseFloat((totalUnits - totalUsed).toFixed(2))
unaccounted(tu, used) == ToFixed2(JsSub(Milli(tu), used))

\* bonusPerTenant without the division by the number of tenants
BonusNotDivided(unacc, len) == unacc

\* const bonusPerTenant = parseFloat((unaccounted / usage.length).toFixed(2))
bonusPerTenant(unacc, len) == ToFixed2(JsDiv(unacc, Num(len, 1)))

\* result giving no bonus to a tenant whose usage is 0
ResultNoBonusForIdle(r, bonus, tu, ta) ==
    LET own == IF r.used.n = 0 THEN Num(0, 1) ELSE bonus
        finalUnits == JsAdd(r.used, own)
        share == JsDiv(finalUnits, Milli(tu))
        bill == JsMul(share, Milli(ta))
    IN [name |-> r.name,
        used |-> r.used,
        bonus |-> own,
        finalUnits |-> ToFixed2(finalUnits),
        bill |-> ToFixed2(bill),
        percentage |-> ToFixed2(JsMul(share, Num(100, 1)))]

\* the callback of usage.map(..) that builds one row of the results
result(r, bonus, tu, ta) ==
    LET finalUnits == JsAdd(r.used, bonus)
        share == JsDiv(finalUnits, Milli(tu))
        bill == JsMul(share, Milli(ta))
    IN [name |-> r.name,
        used |-> r.used,
        bonus |-> bonus,
        finalUnits |-> ToFixed2(finalUnits),
        bill |-> ToFixed2(bill),
        percentage |-> ToFixed2(JsMul(share, Num(100, 1)))]

\* The figures a render computes (lines 65-89) and puts on the page (lines
\* 231-237, 353-398); the export handlers hand the same figures to the
\* generators (lines 101-115, 139-147).
Render(rs, tu, ta) ==
    LET u == usage(rs)
        used == totalUsed(u)
        unacc == unaccounted(tu, used)
        bonus == bonusPerTenant(unacc, Len(u))
    IN [unitPrice |-> ToFixed2(unitPrice(tu, ta)),
        unaccounted |-> unacc,
        totalUsed |-> ToFixed2(used),
        results |-> [i \in 1..Len(u) |-> result(u[i], bonus, tu, ta)],
        totalUnits |-> Milli(tu),
        totalAmount |-> Milli(ta)]

---------------------------------------------------------------------------
(* The state after construction (lines 34-40).                             *)

InitialReadings ==
    <<[id |-> "1", name |-> "Tenant A",
       previous |-> InitPreviousA, current |-> InitCurrentA],
      [id |-> "2", name |-> "Tenant B",
       previous |-> InitPreviousB, current |-> InitCurrentB]>>

Init ==
    /\ readings = InitialReadings
    /\ totalUnits = InitTotalUnits
    /\ totalAmount = InitTotalAmount
    /\ now = StartNow
    /\ toast = ""
    /\ generatorFailed = FALSE
    /\ thrown = FALSE

\* Every render recomputes the figures from the state (the calculations are
\* in the component's body): what the page shows in a state.
rendered == Render(readings, totalUnits, totalAmount)

\* a handler that calls no generator and throws nothing
Quiet == generatorFailed' = FALSE /\ thrown' = FALSE

---------------------------------------------------------------------------
(* The handlers of the reading store (lines 42-63).                        *)

\* Date.now() moves on between two events
Tick ==
    /\ now < MaxNow
    /\ now' = now + 1
    /\ UNCHANGED <<readings, totalUnits, totalAmount, toast, generatorFailed, thrown>>

\* const newId = Date.now().toString()
NewId(rs) == NumberToString(now)

addTenant ==
    /\ readings' = Append(readings,
           [id |-> NewId(readings),
            name |-> "Tenant " \o FromCharCode(65 + Len(readings)),
            previous |-> 0,
            current |-> 0])
    /\ UNCHANGED <<totalUnits, totalAmount, now, toast>>
    /\ Quiet

\* RemoveGuard letting the last tenant go
RemoveGuardOff(rs) == Len(rs) >= 1

\* readings.length > 1
RemoveGuard(rs) == Len(rs) > 1

removeTenant(id) ==
    /\ IF RemoveGuard(readings)
       THEN /\ readings' = SelectSeq(readings, LAMBDA r : r.id # id)
            /\ UNCHANGED toast
       ELSE /\ toast' = "Cannot remove tenant"
            /\ UNCHANGED readings
    /\ UNCHANGED <<totalUnits, totalAmount, now>>
    /\ Quiet

updateReading(id, field, value) ==
    /\ readings' = [i \in 1..Len(readings) |->
           IF readings[i].id = id
           THEN [readings[i] EXCEPT ![field] = value]
           ELSE readings[i]]
    /\ UNCHANGED <<totalUnits, totalAmount, now, toast>>
    /\ Quiet

---------------------------------------------------------------------------
(* The events of the page: each row's inputs and bin button (lines         *)
(* 280-329), the Add Tenant button (272), the two bill inputs (212-229).   *)

ClickAdd(max) == Len(readings) < max /\ addTenant

ClickRemove == \E i \in 1..Len(readings) : removeTenant(readings[i].id)

EditName(texts) ==
    \E i \in 1..Len(readings), text \in texts :
        updateReading(readings[i].id, "name", text)

EditPrevious(entries) ==
    \E i \in 1..Len(readings), e \in entries :
        updateReading(readings[i].id, "previous", NumberInput(e))

EditCurrent(entries) ==
    \E i \in 1..Len(readings), e \in entries :
        updateReading(readings[i].id, "current", NumberInput(e))

EditTotalUnits(entries) ==
    \E e \in entries :
        /\ totalUnits' = NumberInput(e)
        /\ UNCHANGED <<readings, totalAmount, now, toast>>
        /\ Quiet
    
EditTotalAmount(entries) ==
    \E e \in entries :
        /\ totalAmount' = NumberInput(e)
        /\ UNCHANGED <<readings, totalUnits, now, toast>>
        /\ Quiet
    
---------------------------------------------------------------------------
(* The export handlers (lines 92-188).  The generator (jsPDF and           *)
(* autoTable, XLSX, html2canvas) either does its work or throws / rejects. *)

\* exportToPDF: no try around the jsPDF calls
exportToPDF ==
    \E ok \in BOOLEAN :
        /\ generatorFailed' = ~ok
        /\ thrown' = ~ok
        /\ toast' = IF ok THEN "PDF Export Successful" ELSE toast
        /\ UNCHANGED <<readings, totalUnits, totalAmount, now>>

\* exportToExcel: no try around the XLSX calls
exportToExcel ==
    \E ok \in BOOLEAN :
        /\ generatorFailed' = ~ok
        /\ thrown' = ~ok
        /\ toast' = IF ok THEN "Excel Export Successful" ELSE toast
        /\ UNCHANGED <<readings, totalUnits, totalAmount, now>>

\* exportToPNG: html2canvas is awaited inside try / catch.  The results card
\* carries tableRef for as long as the page is shown.
exportToPNG ==
    \E ok \in BOOLEAN :
        /\ generatorFailed' = ~ok
        /\ thrown' = FALSE
        /\ toast' = IF ok THEN "PNG Export Successful" ELSE "Export Failed"
        /\ UNCHANGED <<readings, totalUnits, totalAmount, now>>

---------------------------------------------------------------------------
(* Spec: the page as a whole, with a few values to type.                   *)

NameInputs == {"Flat 1"}
ReadingEntries == {Typed(0), Unparsable}
TotalEntries == {Typed(0), Unparsable}

Next ==
    \/ Tick
    \/ ClickAdd(MaxTenants)
    \/ ClickRemove
    \/ EditName(NameInputs)
    \/ EditPrevious(ReadingEntries)
    \/ EditCurrent(ReadingEntries)
    \/ EditTotalUnits(TotalEntries)
    \/ EditTotalAmount(TotalEntries)
    \/ exportToPDF
    \/ exportToExcel
    \/ exportToPNG

Spec == Init /\ [][Next]_vars


---------------------------------------------------------------------------
(* SpecCalc: the calculations over stores of 1 .. MaxCalcTenants tenants   *)
(* with distinct ids, the readings and bill parameters drawn from the      *)
(* values below and then edited.                                           *)

CalcPrevious == {0, InitPreviousA}
CalcCurrent == {0, 33335, InitCurrentA, 175404}
CalcTotalUnits == {0, InitTotalUnits, 52805, 100000}
CalcTotalAmounts == {1000000, InitTotalAmount}

CalcId(i) == IF i <= 2 THEN NumberToString(i) ELSE NumberToString(StartNow + i - 3)

InitCalc ==
    /\ \E len \in 1..MaxCalcTenants :
         \E p \in [1..len -> CalcPrevious], c \in [1..len -> CalcCurrent] :
            readings = [i \in 1..len |->
                [id |-> CalcId(i),
                 name |-> "Tenant " \o FromCharCode(64 + i),
                 previous |-> p[i],
                 current |-> c[i]]]
    /\ totalUnits \in CalcTotalUnits
    /\ totalAmount \in CalcTotalAmounts
    /\ now = StartNow
    /\ toast = ""
    /\ generatorFailed = FALSE
    /\ thrown = FALSE

NextCalc ==
    \/ EditPrevious({Typed(k) : k \in CalcPrevious})
    \/ EditCurrent({Typed(k) : k \in CalcCurrent} \cup {Unparsable})
    \/ EditTotalUnits({Typed(k) : k \in CalcTotalUnits} \cup {Unparsable})
    \/ EditTotalAmount({Typed(k) : k \in CalcTotalAmounts})

SpecCalc == InitCalc /\ [][NextCalc]_vars

---------------------------------------------------------------------------
(* SpecGrow: the initial store grown by Add Tenant alone.                  *)

NextGrow ==
    \/ Tick
    \/ ClickAdd(MaxGrow)

SpecGrow == Init /\ [][NextGrow]_vars


---------------------------------------------------------------------------
(* Helpers of the properties.                                              *)

\* sum of the field f of the first k rows of the results
RECURSIVE SumField(_, _, _)
SumField(res, f, k) ==
    IF k = 0 THEN Num(0, 1) ELSE JsAdd(SumField(res, f, k - 1), res[k][f])

\* x <= y, for finite x and y
Leq(x, y) == x.n * y.d <= y.n * x.d

\* |x|
AbsValue(x) == [n |-> Abs(x.n), d |-> x.d]

\* |x| <= y, for finite x and y
AbsLeq(x, y) == Leq(AbsValue(x), y)

\* y is x rounded to 2 decimals: a whole number of hundredths within 0.005
\* of x, and the one away from zero when x is half way between two
IsRound2(y, x) ==
    /\ IsFinite(y)
    /\ 100 % y.d = 0
    /\ AbsLeq(JsSub(y, x), Num(5, Thousandth))
    /\ AbsValue(JsSub(y, x)) = Num(5, Thousandth) => Leq(AbsValue(x), AbsValue(y))

Alphabet ==
    <<"A", "B", "C", "D", "E", "F", "G", "H", "I", "J", "K", "L", "M",
      "N", "O", "P", "Q", "R", "S", "T", "U", "V", "W", "X", "Y", "Z">>

AtInitialInputs ==
    /\ readings = InitialReadings
    /\ totalUnits = InitTotalUnits
    /\ totalAmount = InitTotalAmount

\* every figure the page shows or an export writes is a finite number
AllFiguresFinite(v) ==
    /\ IsFinite(v.unitPrice)
    /\ IsFinite(v.unaccounted)
    /\ \A i \in 1..Len(v.results) :
          /\ IsFinite(v.results[i].bonus)
          /\ IsFinite(v.results[i].finalUnits)
          /\ IsFinite(v.results[i].bill)
          /\ IsFinite(v.results[i].percentage)

---------------------------------------------------------------------------
(* The claims.                                                             *)

\* C1: in every reachable state the reading store holds at least one tenant.
C1_StoreNeverEmpty == Len(readings) >= 1

\* C2: removeTenant called while the store holds exactly one tenant is
\* refused: the store (length, order, every field) and both bill parameters
\* are unchanged and the notification 'Cannot remove tenant' is shown.
C2_SoleTenantRemovalRefused ==
    [][(Len(readings) = 1 /\ ClickRemove) =>
          /\ readings' = readings
          /\ totalUnits' = totalUnits
          /\ totalAmount' = totalAmount
          /\ toast' = "Cannot remove tenant"]_vars

\* C2 witness: the refusal has been issued and the sole tenant is still there.
C2_Witness == Len(readings) = 1 /\ toast = "Cannot remove tenant"

\* C3: for N >= 1 tenants the sum of the rows' final units (each rounded to
\* 2 decimals) differs from total units purchased by at most 0.01 * N.
C3_FinalUnitsSumToTotalUnits ==
    Len(readings) >= 1 =>
        \A v \in {rendered} :
            AbsLeq(JsSub(SumField(v.results, "finalUnits", Len(v.results)),
                         v.totalUnits),
                   Centi(Len(readings)))

\* C3 witness: three tenants whose final units do not add up to the total
\* exactly, so the tolerance is what makes the claim true.
C3_Witness ==
    /\ Len(readings) = 3
    /\ \A v \in {rendered} :
          SumField(v.results, "finalUnits", Len(v.results)) # v.totalUnits

\* C4: for N >= 1 tenants and non-zero total units the sum of the rows' bills
\* differs from total amount billed by at most 0.01 * N.
C4_BillsSumToTotalAmount ==
    (Len(readings) >= 1 /\ totalUnits # 0) =>
        \A v \in {rendered} :
            AbsLeq(JsSub(SumField(v.results, "bill", Len(v.results)),
                         v.totalAmount),
                   Centi(Len(readings)))

\* C5: when total units purchased is 0 no Infinity or NaN reaches the page
\* or the export data (the component has no marker for 'undefined', so every
\* figure would have to be finite).
C5_NoInfinityOrNaNShown == totalUnits = 0 => AllFiguresFinite(rendered)

\* C6: a failure of the generator is caught inside the export handler and
\* reported by a failure notification.
C6_ExportFailureCaughtAndReported ==
    generatorFailed => (~thrown /\ toast = "Export Failed")

\* C7: no two tenants of the store have the same id.
C7_IdsUnique ==
    \A i, j \in 1..Len(readings) : i # j => readings[i].id # readings[j].id

\* C8 as stated: at the initial inputs usage is 29.08 and 20.10, total used
\* 49.18, unaccounted 3.62, bonus 1.81 each, final units 30.89 and 21.91,
\* unit price 227.27, and the bills are 7020.9 and 4979.1 to one decimal.
C8_AsStated ==
    AtInitialInputs =>
        \A v \in {rendered} :
            /\ v.results[1].used = Centi(2908)
            /\ v.results[2].used = Centi(2010)
            /\ v.totalUsed = Centi(4918)
            /\ v.unaccounted = Centi(362)
            /\ v.results[1].bonus = Centi(181)
            /\ v.results[2].bonus = Centi(181)
            /\ v.results[1].finalUnits = Centi(3089)
            /\ v.results[2].finalUnits = Centi(2191)
            /\ v.unitPrice = Centi(22727)
            /\ AbsLeq(JsSub(v.results[1].bill, Centi(702090)), Centi(5))
            /\ AbsLeq(JsSub(v.results[2].bill, Centi(497910)), Centi(5))

\* C8 amended: the same figures, with the bills 7020.45 and 4979.55.
C8_InitialFigures ==
    AtInitialInputs =>
        \A v \in {rendered} :
            /\ Len(v.results) = 2
            /\ v.results[1].used = Centi(2908)
            /\ v.results[2].used = Centi(2010)
            /\ v.totalUsed = Centi(4918)
            /\ v.unaccounted = Centi(362)
            /\ v.results[1].bonus = Centi(181)
            /\ v.results[2].bonus = Centi(181)
            /\ v.results[1].finalUnits = Centi(3089)
            /\ v.results[2].finalUnits = Centi(2191)
            /\ v.unitPrice = Centi(22727)
            /\ v.results[1].bill = Centi(702045)
            /\ v.results[2].bill = Centi(497955)

\* C8 witness: the initial inputs are on the page again after edits and an
\* export, and the two bills add up to the 12000 billed.
C8_Witness ==
    /\ AtInitialInputs
    /\ toast # ""
    /\ JsAdd(rendered.results[1].bill, rendered.results[2].bill) = Milli(InitTotalAmount)

\* C9: every row carries the same bonus, which is total units minus the sum
\* of the rounded usages, rounded, divided by N, rounded; a row is produced
\* for every tenant also when the usages exceed the units purchased.
C9_BonusEqualForAll ==
    Len(readings) >= 1 =>
        \A v \in {rendered} :
            /\ Len(v.results) = Len(readings)
            /\ \A i \in 1..Len(readings) :
                  /\ IsRound2(v.results[i].used,
                              JsSub(Milli(readings[i].current), Milli(readings[i].previous)))
                  /\ IsRound2(v.results[i].bonus,
                              JsDiv(v.unaccounted, Num(Len(readings), 1)))
                  /\ v.results[i].bonus = v.results[1].bonus
            /\ IsRound2(v.unaccounted,
                        JsSub(Milli(totalUnits),
                              SumField(v.results, "used", Len(v.results))))

\* C9 witness: two or more tenants, one with current below previous, more
\* usage metered than units purchased, and a negative bonus in every row.
C9_Witness ==
    /\ Len(readings) >= 2
    /\ \E i \in 1..Len(readings) : readings[i].current < readings[i].previous
    /\ \A v \in {rendered} :
          /\ v.unaccounted.n < 0
          /\ \A i \in 1..Len(readings) : v.results[i].bonus.n < 0
          /\ \E i, j \in 1..Len(readings) : v.results[i].used # v.results[j].used

\* C10: addTenant on a store of length L appends one tenant with readings 0
\* and the name 'Tenant ' and the L-th letter of A, B, C, ...; the L tenants
\* before it and both bill parameters are unchanged.
C10_AddAppendsLetterNamedTenant ==
    [][addTenant =>
          /\ Len(readings') = Len(readings) + 1
          /\ SubSeq(readings', 1, Len(readings)) = readings
          /\ readings'[Len(readings) + 1].previous = 0
          /\ readings'[Len(readings) + 1].current = 0
          /\ Len(readings) < Len(Alphabet)
          /\ readings'[Len(readings) + 1].name
                = "Tenant " \o Alphabet[Len(readings) + 1]
          /\ totalUnits' = totalUnits
          /\ totalAmount' = totalAmount]_vars

=============================================================================
